---- MODULE Spec2Model ----
(***************************************************************************)
(* Bank management system: TransferManager (src/transfer.py) on top of     *)
(* DatabaseManager (src/database.py), which forwards every operation to a  *)
(* hosted table "users" with columns id, name, email, balance.             *)
(*                                                                         *)
(* The table is a set of rows.  Every DatabaseManager call is one store    *)
(* call; a store call may raise (network fault), in which case it has no   *)
(* effect on the table and the try/except of the method turns it into      *)
(* None / False / an error tuple.  A call that does not raise answers as   *)
(* the table dictates: a select returns the matching rows, an update the   *)
(* rows it changed, an insert the inserted row with its new id.            *)
(* A TransferManager invocation is a                                       *)
(* sequence of steps, one per store call, each step carrying the local     *)
(* computation that follows the call up to the next store call.            *)
(*                                                                         *)
(* Spec     : invocations run one at a time (the console loop of main.py). *)
(* SpecConc : two callers of one TransferManager interleave at the         *)
(*            granularity of store calls.                                  *)
(***************************************************************************)
EXTENDS Integers, Sequences, FiniteSets, TLC

VARIABLES
    users,         \* the rows of table "users"
    next_id,       \* the id the store assigns to the next inserted row
    transactions,  \* TransferManager.transactions
    pc,            \* per invocation slot: position in the handler
    op,            \* per invocation slot: the handler being run
    args,          \* per invocation slot: the arguments of the call
    sender,        \* local `sender` of transfer_funds (set of 0 or 1 rows)
    receiver,      \* local `receiver` of transfer_funds / `user` of delete_account
    result,        \* the tuple the call returned
    pre_users,     \* history: the table when the call began (sequential calls)
    pre_transactions, \* history: the ledger when the call began (sequential calls)
    faults,        \* history: the store calls of this invocation that raised
    writes,        \* history: what each update_balance of this invocation returned
    ops            \* history: number of transfer/create/delete calls begun

vars == <<users, next_id, transactions, pc, op, args, sender, receiver, result,
          pre_users, pre_transactions, faults, writes, ops>>

-----------------------------------------------------------------------------
(* Bounds of the model *)

MaxOps == 3          \* transfer/create/delete calls begun in one behaviour of Spec
MaxConcOps == 2      \* the same, in one behaviour of SpecConc
MaxAmount == 2       \* largest transfer amount / initial balance entered

(* Invocation slots: the callers that interleave under SpecConc *)
Procs == {1, 2}

(* Inputs typed at the console *)
Names == {"A", "B"}
NameInputs == Names \cup {""}
AT == "@"
EmailInputs == {<<>>, <<"a">>, <<"a", AT>>, <<"b", AT>>}
ConfirmInputs == {"A", "a", "B"}
IdInputs == 0..3
SenderIds == 1..2
ReceiverIds == 1..3
Amounts == (-1)..MaxAmount

Row(i, n, e, b) == [id |-> i, name |-> n, email |-> e, balance |-> b]

(* Tables the program can find at start-up: an empty table, or the two     *)
(* accounts of the scenario (A funded, B empty).                           *)
InitTables ==
    { {},
      {Row(1, "A", <<"a", AT>>, 2), Row(2, "B", <<"b", AT>>, 0)} }

NoArgs == [none |-> TRUE]
NoResult == [ok |-> FALSE, msg |-> ""]

-----------------------------------------------------------------------------
(* DatabaseManager: the store calls.  `fault` is the call raising. *)

First(data) == IF data /= {} THEN {CHOOSE u \in data : TRUE} ELSE {}

get_user_by_id_and_name(tbl, user_id, name, fault) ==
    IF fault THEN {}
    ELSE First({u \in tbl : u.id = user_id /\ u.name = name})

get_user_by_id(tbl, user_id, fault) ==
    IF fault THEN {}
    ELSE First({u \in tbl : u.id = user_id})

get_user_balance(tbl, user_id, name, fault) ==
    {u.balance : u \in get_user_by_id_and_name(tbl, user_id, name, fault)}

(* update(...).eq("id", user_id): True iff the store returned affected rows *)
update_balance(tbl, user_id, new_balance, fault) ==
    IF fault \/ {u \in tbl : u.id = user_id} = {}
    THEN [ok |-> FALSE, tbl |-> tbl]
    ELSE [ok |-> TRUE,
          tbl |-> {IF u.id = user_id THEN [u EXCEPT !.balance = new_balance] ELSE u
                   : u \in tbl}]

(* bug variant: the uniqueness pre-check is missing *)
email_exists_unchecked(tbl, email) == FALSE

email_exists(tbl, email) == {u \in tbl : u.email = email} /= {}

insert_user(tbl, id, name, email, initial_balance) ==
    tbl \cup {Row(id, name, email, initial_balance)}

delete_user(tbl, user_id) == {u \in tbl : u.id /= user_id}

-----------------------------------------------------------------------------
(* TransferManager: local computations *)

Contains(s, c) == \E i \in DOMAIN s : s[i] = c

(* bug variant: zero is let through *)
amount_invalid_strict(amount) == amount < 0

amount_invalid(amount) == amount <= 0

(* bug variant: the funds check is missing *)
insufficient_balance_unchecked(sender_balance, amount) == FALSE

insufficient_balance(sender_balance, amount) == sender_balance < amount

(* bug variant: the sender is credited instead of debited *)
new_sender_balance_credit(sender_balance, amount) == sender_balance + amount

new_sender_balance(sender_balance, amount) == sender_balance - amount

new_receiver_balance(receiver_balance, amount) == receiver_balance + amount

(* bug variant: the compensating write repeats the debited balance *)
rollback_balance_debited(sender_balance, amount) == sender_balance - amount

rollback_balance(sender_balance, amount) == sender_balance

(* bug variant: any non-empty email passes *)
valid_email_nonempty(email) == Len(email) > 0

valid_email(email) == Contains(email, AT)

(* bug variant: the confirmation name is not compared *)
name_confirmed_any(user, confirm_name) == TRUE

name_confirmed(user, confirm_name) == user.name = confirm_name

transaction_record(a, s, r) ==
    [sender_id |-> a.sender_id,
     sender_name |-> a.sender_name,
     receiver_id |-> a.receiver_id,
     receiver_name |-> r.name,
     amount |-> a.amount,
     sender_balance_before |-> s.balance,
     sender_balance_after |-> new_sender_balance(s.balance, a.amount),
     receiver_balance_before |-> r.balance,
     receiver_balance_after |-> new_receiver_balance(r.balance, a.amount)]

(* bug variant: the record is put in front of the ledger *)
record_transaction_front(txs, rec) == <<rec>> \o txs

record_transaction(txs, rec) == Append(txs, rec)

TheRow(S) == CHOOSE u \in S : TRUE

(* Result tuples *)
Ok(m) == [ok |-> TRUE, msg |-> m]
Fail(m) == [ok |-> FALSE, msg |-> m]

MsgAmount == "Transfer amount must be greater than 0"
MsgSenderNotFound == "Sender not found"
MsgReceiverNotFound == "Receiver not found"
MsgInsufficient == "Insufficient balance"
MsgSenderWrite == "Failed to update sender balance"
MsgRolledBack == "Failed to update receiver balance. Transaction rolled back"
MsgTransferred == "Successfully transferred"
MsgRequired == "Name and email are required"
MsgEmailFormat == "Invalid email format"
MsgNegative == "Initial balance cannot be negative"
MsgEmailExists == "Email already exists"
MsgCreateError == "Error creating account"
MsgCreated == "Account created successfully"
MsgIdRequired == "User ID is required"
MsgUserNotFound == "User not found"
MsgConfirm == "Name confirmation failed. Account not deleted."
MsgDeleteError == "Error deleting account"
MsgDeleted == "deleted successfully"
MsgIdNameRequired == "User ID and name are required"
MsgBalance == "Balance for"
MsgHistory == "history"

-----------------------------------------------------------------------------
Init ==
    /\ users \in InitTables
    /\ next_id = Cardinality(users) + 1
    /\ transactions = <<>>
    /\ pc = [p \in Procs |-> "idle"]
    /\ op = [p \in Procs |-> "none"]
    /\ args = [p \in Procs |-> NoArgs]
    /\ sender = [p \in Procs |-> {}]
    /\ receiver = [p \in Procs |-> {}]
    /\ result = [p \in Procs |-> NoResult]
    /\ pre_users = [p \in Procs |-> {}]
    /\ pre_transactions = [p \in Procs |-> <<>>]
    /\ faults = [p \in Procs |-> {}]
    /\ writes = [p \in Procs |-> <<>>]
    /\ ops = 0

(* A call may begin in slot p when the slot is free.  Slot 1 is the console *)
(* loop of main.py; slot 2 is a second caller, present only under the      *)
(* interleaved specification, whose calls begin while a call of slot 1 is  *)
(* in flight (a call that begins when nothing is in flight is slot 1's).   *)
CanBegin(p, interleaved) ==
    /\ pc[p] = "idle"
    /\ IF p = 1 THEN interleaved \/ pc[2] = "idle"
                ELSE interleaved /\ pc[1] \notin {"idle", "done"}

Enter(p, name, interleaved, a) ==
    /\ op' = [op EXCEPT ![p] = name]
    /\ args' = [args EXCEPT ![p] = a]
    /\ sender' = [sender EXCEPT ![p] = {}]
    /\ receiver' = [receiver EXCEPT ![p] = {}]
    /\ pre_users' = [pre_users EXCEPT ![p] = IF interleaved THEN {} ELSE users]
    /\ pre_transactions' =
          [pre_transactions EXCEPT ![p] = IF interleaved THEN <<>> ELSE transactions]
    /\ faults' = [faults EXCEPT ![p] = {}]
    /\ writes' = [writes EXCEPT ![p] = <<>>]

Finish(p, r) ==
    /\ pc' = [pc EXCEPT ![p] = "done"]
    /\ result' = [result EXCEPT ![p] = r]

Goto(p, label) ==
    /\ pc' = [pc EXCEPT ![p] = label]
    /\ UNCHANGED result

Raised(p, call, fault) ==
    faults' = [faults EXCEPT ![p] = IF fault THEN @ \cup {call} ELSE @]

Wrote(p, w) == writes' = [writes EXCEPT ![p] = Append(@, w.ok)]

(* The budget of calls that can change the table or the ledger *)
Budget(interleaved) ==
    /\ ops < (IF interleaved THEN MaxConcOps ELSE MaxOps)
    /\ ops' = ops + 1

-----------------------------------------------------------------------------
(* TransferManager.transfer_funds *)

(* lines 52-54: the amount check precedes every store call *)
BeginTransfer(p, interleaved) ==
    /\ CanBegin(p, interleaved)
    /\ Budget(interleaved)
    /\ \E sid \in SenderIds, sname \in Names, rid \in ReceiverIds, amt \in Amounts :
          /\ Enter(p, "transfer_funds", interleaved,
                   [sender_id |-> sid, sender_name |-> sname,
                    receiver_id |-> rid, amount |-> amt])
          /\ IF amount_invalid(amt)
             THEN Finish(p, Fail(MsgAmount))
             ELSE Goto(p, "tf_get_sender")
    /\ UNCHANGED <<users, next_id, transactions>>

(* lines 56-59 *)
TfGetSender(p) ==
    /\ pc[p] = "tf_get_sender"
    /\ \E fault \in BOOLEAN :
          LET s == get_user_by_id_and_name(users, args[p].sender_id,
                                           args[p].sender_name, fault) IN
          /\ Raised(p, "get_sender", fault)
          /\ sender' = [sender EXCEPT ![p] = s]
          /\ IF s = {}
             THEN Finish(p, Fail(MsgSenderNotFound))
             ELSE Goto(p, "tf_get_receiver")
    /\ UNCHANGED <<users, next_id, transactions, op, args, receiver,
                   pre_users, pre_transactions, writes, ops>>

(* lines 61-78 *)
TfGetReceiver(p) ==
    /\ pc[p] = "tf_get_receiver"
    /\ \E fault \in BOOLEAN :
          LET r == get_user_by_id(users, args[p].receiver_id, fault) IN
          /\ Raised(p, "get_receiver", fault)
          /\ receiver' = [receiver EXCEPT ![p] = r]
          /\ IF r = {}
             THEN Finish(p, Fail(MsgReceiverNotFound))
             ELSE IF insufficient_balance(TheRow(sender[p]).balance, args[p].amount)
                  THEN Finish(p, [ok |-> FALSE, msg |-> MsgInsufficient,
                                  current |-> TheRow(sender[p]).balance,
                                  required |-> args[p].amount])
                  ELSE Goto(p, "tf_update_sender")
    /\ UNCHANGED <<users, next_id, transactions, op, args, sender,
                   pre_users, pre_transactions, writes, ops>>

(* lines 80-82 *)
TfUpdateSender(p) ==
    /\ pc[p] = "tf_update_sender"
    /\ \E fault \in BOOLEAN :
          LET w == update_balance(users, args[p].sender_id,
                       new_sender_balance(TheRow(sender[p]).balance, args[p].amount),
                       fault) IN
          /\ Raised(p, "update_sender", fault)
          /\ Wrote(p, w)
          /\ users' = w.tbl
          /\ IF w.ok
             THEN Goto(p, "tf_update_receiver")
             ELSE Finish(p, Fail(MsgSenderWrite))
    /\ UNCHANGED <<next_id, transactions, op, args, sender, receiver,
                   pre_users, pre_transactions, ops>>

(* lines 84-85 and, when the write succeeds, 90-107 *)
TfUpdateReceiver(p) ==
    /\ pc[p] = "tf_update_receiver"
    /\ \E fault \in BOOLEAN :
          LET w == update_balance(users, args[p].receiver_id,
                       new_receiver_balance(TheRow(receiver[p]).balance, args[p].amount),
                       fault) IN
          /\ Raised(p, "update_receiver", fault)
          /\ Wrote(p, w)
          /\ users' = w.tbl
          /\ IF w.ok
             THEN /\ transactions' = record_transaction(transactions,
                         transaction_record(args[p], TheRow(sender[p]), TheRow(receiver[p])))
                  /\ Finish(p, Ok(MsgTransferred))
             ELSE /\ UNCHANGED transactions
                  /\ Goto(p, "tf_rollback")
    /\ UNCHANGED <<next_id, op, args, sender, receiver,
                   pre_users, pre_transactions, ops>>

(* lines 86-88: the compensating write, its result ignored *)
TfRollback(p) ==
    /\ pc[p] = "tf_rollback"
    /\ \E fault \in BOOLEAN :
          LET w == update_balance(users, args[p].sender_id,
                       rollback_balance(TheRow(sender[p]).balance, args[p].amount),
                       fault) IN
          /\ Raised(p, "rollback", fault)
          /\ Wrote(p, w)
          /\ users' = w.tbl
          /\ Finish(p, Fail(MsgRolledBack))
    /\ UNCHANGED <<next_id, transactions, op, args, sender, receiver,
                   pre_users, pre_transactions, ops>>

-----------------------------------------------------------------------------
(* TransferManager.create_account, DatabaseManager.create_account *)

(* transfer.py lines 147-156 *)
BeginCreate(p, interleaved) ==
    /\ CanBegin(p, interleaved)
    /\ Budget(interleaved)
    /\ \E name \in NameInputs, email \in EmailInputs, bal \in Amounts :
          /\ Enter(p, "create_account", interleaved,
                   [name |-> name, email |-> email, initial_balance |-> bal])
          /\ IF name = "" \/ email = <<>>
             THEN Finish(p, Fail(MsgRequired))
             ELSE IF email = <<>> \/ ~valid_email(email)
                  THEN Finish(p, Fail(MsgEmailFormat))
                  ELSE IF bal < 0
                       THEN Finish(p, Fail(MsgNegative))
                       ELSE Goto(p, "ca_check_email")
    /\ UNCHANGED <<users, next_id, transactions>>

(* database.py lines 135-145, 159-160 *)
CaCheckEmail(p) ==
    /\ pc[p] = "ca_check_email"
    /\ \E fault \in BOOLEAN :
          /\ Raised(p, "check_email", fault)
          /\ IF fault
             THEN Finish(p, Fail(MsgCreateError))
             ELSE IF email_exists(users, args[p].email)
                  THEN Finish(p, Fail(MsgEmailExists))
                  ELSE Goto(p, "ca_insert")
    /\ UNCHANGED <<users, next_id, transactions, op, args, sender, receiver,
                   pre_users, pre_transactions, writes, ops>>

(* database.py lines 147-160 *)
CaInsert(p) ==
    /\ pc[p] = "ca_insert"
    /\ \E fault \in BOOLEAN :
          /\ Raised(p, "insert", fault)
          /\ IF fault
             THEN /\ Finish(p, Fail(MsgCreateError))
                  /\ UNCHANGED <<users, next_id>>
             ELSE /\ users' = insert_user(users, next_id, args[p].name,
                                          args[p].email, args[p].initial_balance)
                  /\ next_id' = next_id + 1
                  /\ Finish(p, [ok |-> TRUE, msg |-> MsgCreated, user_id |-> next_id])
    /\ UNCHANGED <<transactions, op, args, sender, receiver,
                   pre_users, pre_transactions, writes, ops>>

-----------------------------------------------------------------------------
(* TransferManager.delete_account, DatabaseManager.delete_account *)

(* transfer.py lines 169-170 *)
BeginDelete(p, interleaved) ==
    /\ CanBegin(p, interleaved)
    /\ Budget(interleaved)
    /\ \E uid \in IdInputs, confirm \in ConfirmInputs :
          /\ Enter(p, "delete_account", interleaved,
                   [user_id |-> uid, confirm_name |-> confirm])
          /\ IF uid = 0
             THEN Finish(p, Fail(MsgIdRequired))
             ELSE Goto(p, "da_lookup")
    /\ UNCHANGED <<users, next_id, transactions>>

(* transfer.py lines 172-181 *)
DaLookup(p) ==
    /\ pc[p] = "da_lookup"
    /\ \E fault \in BOOLEAN :
          LET u == get_user_by_id(users, args[p].user_id, fault) IN
          /\ Raised(p, "lookup", fault)
          /\ receiver' = [receiver EXCEPT ![p] = u]
          /\ IF u = {}
             THEN Finish(p, Fail(MsgUserNotFound))
             ELSE IF ~name_confirmed(TheRow(u), args[p].confirm_name)
                  THEN Finish(p, Fail(MsgConfirm))
                  ELSE Goto(p, "da_exists")
    /\ UNCHANGED <<users, next_id, transactions, op, args, sender,
                   pre_users, pre_transactions, writes, ops>>

(* database.py lines 172-176 *)
DaExists(p) ==
    /\ pc[p] = "da_exists"
    /\ \E fault \in BOOLEAN :
          LET u == get_user_by_id(users, args[p].user_id, fault) IN
          /\ Raised(p, "exists", fault)
          /\ IF u = {}
             THEN Finish(p, Fail(MsgUserNotFound))
             ELSE Goto(p, "da_delete")
    /\ UNCHANGED <<users, next_id, transactions, op, args, sender, receiver,
                   pre_users, pre_transactions, writes, ops>>

(* database.py lines 178-189 *)
DaDelete(p) ==
    /\ pc[p] = "da_delete"
    /\ \E fault \in BOOLEAN :
          /\ Raised(p, "delete", fault)
          /\ IF fault
             THEN /\ Finish(p, Fail(MsgDeleteError))
                  /\ UNCHANGED users
             ELSE /\ users' = delete_user(users, args[p].user_id)
                  /\ Finish(p, Ok(MsgDeleted))
    /\ UNCHANGED <<next_id, transactions, op, args, sender, receiver,
                   pre_users, pre_transactions, writes, ops>>

-----------------------------------------------------------------------------
(* TransferManager.check_balance and get_transaction_history: one store    *)
(* call at most, so one step each.                                         *)

CheckBalance(p, interleaved) ==
    /\ CanBegin(p, interleaved)
    /\ \E uid \in IdInputs, name \in NameInputs, fault \in BOOLEAN :
          /\ Enter(p, "check_balance", interleaved, [user_id |-> uid, name |-> name])
          /\ IF uid = 0 \/ name = ""
             THEN Finish(p, Fail(MsgIdNameRequired))
             ELSE LET b == get_user_balance(users, uid, name, fault) IN
                  IF b = {}
                  THEN Finish(p, Fail(MsgUserNotFound))
                  ELSE Finish(p, [ok |-> TRUE, msg |-> MsgBalance,
                                  balance |-> CHOOSE x \in b : TRUE])
    /\ UNCHANGED <<users, next_id, transactions, ops>>

GetTransactionHistory(p, interleaved) ==
    /\ CanBegin(p, interleaved)
    /\ Enter(p, "get_transaction_history", interleaved, NoArgs)
    /\ Finish(p, [ok |-> TRUE, msg |-> MsgHistory, history |-> transactions])
    /\ UNCHANGED <<users, next_id, transactions, ops>>

(* The call returns to the console loop; its locals are gone. *)
Return(p) ==
    /\ pc[p] = "done"
    /\ pc' = [pc EXCEPT ![p] = "idle"]
    /\ op' = [op EXCEPT ![p] = "none"]
    /\ args' = [args EXCEPT ![p] = NoArgs]
    /\ sender' = [sender EXCEPT ![p] = {}]
    /\ receiver' = [receiver EXCEPT ![p] = {}]
    /\ result' = [result EXCEPT ![p] = NoResult]
    /\ pre_users' = [pre_users EXCEPT ![p] = {}]
    /\ pre_transactions' = [pre_transactions EXCEPT ![p] = <<>>]
    /\ faults' = [faults EXCEPT ![p] = {}]
    /\ writes' = [writes EXCEPT ![p] = <<>>]
    /\ UNCHANGED <<users, next_id, transactions, ops>>

Step(p) ==
    \/ TfGetSender(p)
    \/ TfGetReceiver(p)
    \/ TfUpdateSender(p)
    \/ TfUpdateReceiver(p)
    \/ TfRollback(p)
    \/ CaCheckEmail(p)
    \/ CaInsert(p)
    \/ DaLookup(p)
    \/ DaExists(p)
    \/ DaDelete(p)
    \/ Return(p)

(* The calls that write: transferFunds, createAccount, deleteAccount *)
Begin(p, interleaved) ==
    \/ BeginTransfer(p, interleaved)
    \/ BeginCreate(p, interleaved)
    \/ BeginDelete(p, interleaved)

Next ==
    \E p \in Procs :
        \/ Begin(p, FALSE)
        \/ CheckBalance(p, FALSE)
        \/ GetTransactionHistory(p, FALSE)
        \/ Step(p)

NextConc == \E p \in Procs : Begin(p, TRUE) \/ Step(p)

Spec == Init /\ [][Next]_vars

SpecConc == Init /\ [][NextConc]_vars

TypeOK ==
    /\ \A u \in users : u.id \in 1..(next_id - 1)
    /\ \A p \in Procs : pc[p] \in {"idle", "done", "tf_get_sender", "tf_get_receiver",
           "tf_update_sender", "tf_update_receiver", "tf_rollback", "ca_check_email",
           "ca_insert", "da_lookup", "da_exists", "da_delete"}

-----------------------------------------------------------------------------
(* Vocabulary of the properties *)

Done(p, name) == pc[p] = "done" /\ op[p] = name

RowsOf(tbl, id) == {u \in tbl : u.id = id}

Ids(tbl) == {u.id : u \in tbl}

BalanceOf(tbl, id) == TheRow(RowsOf(tbl, id)).balance

RECURSIVE Total(_)
Total(tbl) ==
    IF tbl = {} THEN 0
    ELSE LET u == TheRow(tbl) IN u.balance + Total(tbl \ {u})

(* The sender row (matched by id and name) the table held when call p began *)
PreSender(p) ==
    {u \in pre_users[p] : u.id = args[p].sender_id /\ u.name = args[p].sender_name}

PreReceiver(p) == RowsOf(pre_users[p], args[p].receiver_id)

Untouched(p) == users = pre_users[p] /\ transactions = pre_transactions[p]

-----------------------------------------------------------------------------
(* C1: a transfer of a > 0 from a sender (id and name matching) holding    *)
(* b >= a to an existing receiver holding r, with no store call failing,   *)
(* returns success, leaves the sender at b-a and the receiver at r+a and   *)
(* appends exactly one record with fields a, b, b-a, r, r+a -- for every   *)
(* accepted pair of ids, receiver_id = sender_id included.                 *)
C1_TransferMovesAmount ==
    \A p \in Procs :
        ( /\ Done(p, "transfer_funds")
          /\ args[p].amount > 0
          /\ faults[p] = {}
          /\ PreSender(p) /= {}
          /\ PreReceiver(p) /= {}
          /\ TheRow(PreSender(p)).balance >= args[p].amount )
        => LET a == args[p].amount
               b == TheRow(PreSender(p)).balance
               r == TheRow(PreReceiver(p)).balance
           IN /\ result[p].ok
              /\ BalanceOf(users, args[p].sender_id) = b - a
              /\ BalanceOf(users, args[p].receiver_id) = r + a
              /\ Len(transactions) = Len(pre_transactions[p]) + 1
              /\ SubSeq(transactions, 1, Len(pre_transactions[p])) = pre_transactions[p]
              /\ LET t == transactions[Len(transactions)]
                 IN /\ t.amount = a
                    /\ t.sender_balance_before = b
                    /\ t.sender_balance_after = b - a
                    /\ t.receiver_balance_before = r
                    /\ t.receiver_balance_after = r + a

(* C1 for two different accounts: the part of the claim the code meets. *)
C1_DistinctAccounts ==
    \A p \in Procs :
        ( /\ Done(p, "transfer_funds")
          /\ args[p].amount > 0
          /\ faults[p] = {}
          /\ PreSender(p) /= {}
          /\ PreReceiver(p) /= {}
          /\ TheRow(PreSender(p)).balance >= args[p].amount
          /\ args[p].receiver_id /= args[p].sender_id )
        => LET a == args[p].amount
               b == TheRow(PreSender(p)).balance
               r == TheRow(PreReceiver(p)).balance
           IN /\ result[p].ok
              /\ BalanceOf(users, args[p].sender_id) = b - a
              /\ BalanceOf(users, args[p].receiver_id) = r + a
              /\ transactions = Append(pre_transactions[p],
                     transaction_record(args[p], TheRow(PreSender(p)),
                                        TheRow(PreReceiver(p))))

(* A transfer to oneself completed: the row holds b+a. *)
C1_SelfTransferCredits ==
    \E p \in Procs :
        /\ Done(p, "transfer_funds")
        /\ result[p].ok
        /\ args[p].receiver_id = args[p].sender_id
        /\ BalanceOf(users, args[p].sender_id)
             = TheRow(PreSender(p)).balance + args[p].amount

-----------------------------------------------------------------------------
(* C2 as stated: a transfer of a > 0 from an existing sender (id and name) *)
(* holding b < a to an existing receiver fails with the InsufficientFunds  *)
(* outcome carrying b and a, writes no balance and appends no record.      *)
C2_InsufficientAlways ==
    \A p \in Procs :
        ( /\ Done(p, "transfer_funds")
          /\ args[p].amount > 0
          /\ PreSender(p) /= {}
          /\ PreReceiver(p) /= {}
          /\ TheRow(PreSender(p)).balance < args[p].amount )
        => /\ result[p] = [ok |-> FALSE, msg |-> MsgInsufficient,
                           current |-> TheRow(PreSender(p)).balance,
                           required |-> args[p].amount]
           /\ writes[p] = <<>>
           /\ Untouched(p)

(* C2 amended: the same call fails, writes no balance and appends no       *)
(* record in every case; its outcome is InsufficientFunds (with b and a)   *)
(* when neither lookup raised, a lookup that raises being reported as      *)
(* "not found".                                                            *)
C2_Insufficient ==
    \A p \in Procs :
        ( /\ Done(p, "transfer_funds")
          /\ args[p].amount > 0
          /\ PreSender(p) /= {}
          /\ PreReceiver(p) /= {}
          /\ TheRow(PreSender(p)).balance < args[p].amount )
        => /\ ~result[p].ok
           /\ writes[p] = <<>>
           /\ Untouched(p)
           /\ faults[p] = {} =>
                result[p] = [ok |-> FALSE, msg |-> MsgInsufficient,
                             current |-> TheRow(PreSender(p)).balance,
                             required |-> args[p].amount]
           /\ "get_sender" \in faults[p] => result[p] = Fail(MsgSenderNotFound)
           /\ "get_receiver" \in faults[p] => result[p] = Fail(MsgReceiverNotFound)

(* The scenario: 2 asked of a sender holding less, both lookups answered. *)
C2_Witness ==
    \E p \in Procs :
        /\ Done(p, "transfer_funds")
        /\ faults[p] = {}
        /\ PreSender(p) /= {} /\ PreReceiver(p) /= {}
        /\ args[p].amount > 0
        /\ TheRow(PreSender(p)).balance < args[p].amount
        /\ result[p].msg = MsgInsufficient

-----------------------------------------------------------------------------
(* C3: when the sender-side write succeeds, the receiver-side write fails  *)
(* and the compensating write succeeds, the call returns the "rolled back" *)
(* failure, the sender's stored balance equals the balance read at the     *)
(* start of the call, the receiver's row is unchanged and no record is     *)
(* appended.                                                               *)
C3_Compensated ==
    \A p \in Procs :
        (Done(p, "transfer_funds") /\ writes[p] = <<TRUE, FALSE, TRUE>>)
        => /\ result[p] = Fail(MsgRolledBack)
           /\ BalanceOf(users, args[p].sender_id) = TheRow(sender[p]).balance
           /\ sender[p] = PreSender(p)
           /\ RowsOf(users, args[p].receiver_id) = PreReceiver(p)
           /\ transactions = pre_transactions[p]

C3_Witness ==
    \E p \in Procs :
        /\ Done(p, "transfer_funds")
        /\ writes[p] = <<TRUE, FALSE, TRUE>>
        /\ args[p].receiver_id /= args[p].sender_id
        /\ users = pre_users[p]

-----------------------------------------------------------------------------
(* C4: the checks of transfer_funds are applied in the order amount <= 0,  *)
(* sender lookup, receiver lookup, funds; the failure returned is that of  *)
(* the first check that fails whatever the later ones would give, and no   *)
(* balance is written nor record appended unless all four pass.            *)
SenderLookupFails(p) == PreSender(p) = {} \/ "get_sender" \in faults[p]

ReceiverLookupFails(p) == PreReceiver(p) = {} \/ "get_receiver" \in faults[p]

CheckFailures == {MsgAmount, MsgSenderNotFound, MsgReceiverNotFound, MsgInsufficient}

C4_CheckOrder ==
    \A p \in Procs :
        Done(p, "transfer_funds") =>
            LET a == args[p].amount IN
            /\ a <= 0 => /\ result[p] = Fail(MsgAmount)
                         /\ faults[p] = {}
                         /\ sender[p] = {} /\ receiver[p] = {}
            /\ (a > 0 /\ SenderLookupFails(p)) =>
                    /\ result[p] = Fail(MsgSenderNotFound)
                    /\ receiver[p] = {}
            /\ (a > 0 /\ ~SenderLookupFails(p) /\ ReceiverLookupFails(p)) =>
                    result[p] = Fail(MsgReceiverNotFound)
            /\ ( /\ a > 0 /\ ~SenderLookupFails(p) /\ ~ReceiverLookupFails(p)
                 /\ TheRow(PreSender(p)).balance < a ) =>
                    result[p].msg = MsgInsufficient
            /\ result[p].msg \in CheckFailures => (writes[p] = <<>> /\ Untouched(p))
            /\ (writes[p] /= <<>> \/ ~Untouched(p)) =>
                    /\ a > 0
                    /\ ~SenderLookupFails(p)
                    /\ ~ReceiverLookupFails(p)
                    /\ TheRow(PreSender(p)).balance >= a

(* amount <= 0 with a sender that does not exist: the amount error *)
C4_Witness ==
    \E p \in Procs :
        /\ Done(p, "transfer_funds")
        /\ args[p].amount <= 0
        /\ PreSender(p) = {}
        /\ PreReceiver(p) = {}
        /\ result[p] = Fail(MsgAmount)

-----------------------------------------------------------------------------
(* The row the table held under the id given to delete_account *)
PreUser(p) == RowsOf(pre_users[p], args[p].user_id)

(* Rows leave the table only through a delete_account call that returned   *)
(* success: a call in flight or returned that is not such a call has lost  *)
(* no row.                                                                 *)
RowsKept ==
    \A p \in Procs :
        (pc[p] /= "idle" /\ ~(Done(p, "delete_account") /\ result[p].ok))
        => Ids(pre_users[p]) \subseteq Ids(users)

(* C5 as stated: delete_account returns success only if the row exists and *)
(* its stored name equals confirm_name exactly; whenever the stored name   *)
(* differs it returns "Name confirmation failed" and the rows are          *)
(* unchanged; rows disappear only through a successful delete_account.     *)
C5_ConfirmFailedAlways ==
    /\ \A p \in Procs :
          Done(p, "delete_account") =>
            /\ result[p].ok =>
                  (PreUser(p) /= {} /\ TheRow(PreUser(p)).name = args[p].confirm_name)
            /\ (PreUser(p) /= {} /\ TheRow(PreUser(p)).name /= args[p].confirm_name) =>
                  (result[p] = Fail(MsgConfirm) /\ users = pre_users[p])
    /\ RowsKept

(* C5 amended: success only on an exact name match; whenever the stored    *)
(* name differs the call fails with the rows unchanged, the failure being  *)
(* "Name confirmation failed" when the lookup answered and "not found"     *)
(* when the lookup raised; rows disappear only through a successful        *)
(* delete_account.                                                         *)
C5_NameConfirmation ==
    /\ \A p \in Procs :
          Done(p, "delete_account") =>
            /\ result[p].ok =>
                  /\ PreUser(p) /= {}
                  /\ TheRow(PreUser(p)).name = args[p].confirm_name
                  /\ users = pre_users[p] \ PreUser(p)
            /\ (PreUser(p) /= {} /\ TheRow(PreUser(p)).name /= args[p].confirm_name) =>
                  /\ ~result[p].ok
                  /\ users = pre_users[p]
                  /\ "lookup" \notin faults[p] => result[p] = Fail(MsgConfirm)
                  /\ "lookup" \in faults[p] => result[p] = Fail(MsgUserNotFound)
    /\ RowsKept

(* "a" against the stored name "A": refused, the row intact *)
C5_Witness ==
    \E p \in Procs :
        /\ Done(p, "delete_account")
        /\ PreUser(p) /= {}
        /\ TheRow(PreUser(p)).name = "A"
        /\ args[p].confirm_name = "a"
        /\ result[p] = Fail(MsgConfirm)
        /\ users = pre_users[p]

-----------------------------------------------------------------------------
(* C6: create_account fails and inserts no row when the email has no '@',  *)
(* when initial_balance < 0 or when a stored row has the same email; so,   *)
(* calls running one at a time, no two rows share an email and every row   *)
(* is inserted with an initial balance >= 0.                               *)
UniqueEmails == \A u, v \in users : u.email = v.email => u = v

C6_CreateRejects ==
    /\ UniqueEmails
    /\ \A p \in Procs :
          Done(p, "create_account") =>
            /\ ( \/ ~Contains(args[p].email, AT)
                 \/ args[p].initial_balance < 0
                 \/ \E u \in pre_users[p] : u.email = args[p].email )
               => (~result[p].ok /\ users = pre_users[p])
            /\ result[p].ok =>
                 /\ args[p].initial_balance >= 0
                 /\ users = pre_users[p] \cup
                      {Row(result[p].user_id, args[p].name, args[p].email,
                           args[p].initial_balance)}
                 /\ result[p].user_id \notin Ids(pre_users[p])
            /\ ~result[p].ok => users = pre_users[p]

(* a well-formed request for an email a stored row already has: refused *)
C6_Witness ==
    \E p \in Procs :
        /\ Done(p, "create_account")
        /\ args[p].name /= ""
        /\ Contains(args[p].email, AT)
        /\ args[p].initial_balance >= 0
        /\ \E u \in pre_users[p] : u.email = args[p].email
        /\ result[p] = Fail(MsgEmailExists)
        /\ users = pre_users[p]

-----------------------------------------------------------------------------
(* C7: the ledger is append-only and follows the successful transfers: a   *)
(* step changes it only by appending one record, and does so exactly when  *)
(* a transfer_funds call returns success; no other operation changes it;   *)
(* get_transaction_history returns it in append order.                     *)
ReturnsSuccess(p) ==
    /\ pc[p] /= "done" /\ pc'[p] = "done"
    /\ op'[p] = "transfer_funds"
    /\ result'[p].ok

LedgerStep ==
    /\ \/ transactions' = transactions
       \/ \E p \in Procs :
             /\ ReturnsSuccess(p)
             /\ Len(transactions') = Len(transactions) + 1
             /\ SubSeq(transactions', 1, Len(transactions)) = transactions
             /\ transactions'[Len(transactions')].amount = args[p].amount
             /\ transactions'[Len(transactions')].sender_id = args[p].sender_id
             /\ transactions'[Len(transactions')].receiver_id = args[p].receiver_id
    /\ \A p \in Procs : ReturnsSuccess(p) => Len(transactions') = Len(transactions) + 1
    /\ \A p \in Procs :
          (pc[p] /= "done" /\ pc'[p] = "done" /\ op'[p] = "get_transaction_history")
          => (result'[p].history = transactions /\ transactions' = transactions)

C7_LedgerAppendOnly == [][LedgerStep]_vars

(* two transfers completed, then the history read: both records, in order *)
C7_Witness ==
    \E p \in Procs :
        /\ Done(p, "get_transaction_history")
        /\ Len(result[p].history) = 2
        /\ result[p].history = transactions
        /\ transactions[1].sender_balance_after = transactions[2].sender_balance_before
        /\ transactions[1].sender_id = transactions[2].sender_id
        /\ transactions[1].receiver_id /= transactions[1].sender_id
        /\ transactions[2].receiver_id /= transactions[2].sender_id

-----------------------------------------------------------------------------
(* C8: the compensation is best effort.  When the sender-side write        *)
(* succeeds and the receiver-side and compensating writes both fail, the   *)
(* call returns the same "rolled back" failure, writes nothing more and    *)
(* appends no record; the sender is left at b-a, every other row as it     *)
(* was, and the total of the balances is lower by a.                       *)
C8_BestEffort ==
    \A p \in Procs :
        ( /\ Done(p, "transfer_funds")
          /\ Len(writes[p]) >= 3
          /\ SubSeq(writes[p], 1, 3) = <<TRUE, FALSE, FALSE>> )
        => LET a == args[p].amount
               b == TheRow(PreSender(p)).balance
           IN /\ result[p] = Fail(MsgRolledBack)
              /\ Len(writes[p]) = 3
              /\ transactions = pre_transactions[p]
              /\ BalanceOf(users, args[p].sender_id) = b - a
              /\ \A u \in pre_users[p] : u.id /= args[p].sender_id => u \in users
              /\ Ids(users) = Ids(pre_users[p])
              /\ Total(users) = Total(pre_users[p]) - a

C8_Witness ==
    \E p \in Procs :
        /\ Done(p, "transfer_funds")
        /\ writes[p] = <<TRUE, FALSE, FALSE>>
        /\ args[p].receiver_id /= args[p].sender_id
        /\ Total(users) = Total(pre_users[p]) - args[p].amount
        /\ BalanceOf(users, args[p].receiver_id) = TheRow(PreReceiver(p)).balance

-----------------------------------------------------------------------------
(* C9: no lock is held between the reads and the writes of transfer_funds. *)
(* When two interleaved transfers from the same sender to other accounts   *)
(* both read the sender at b and both return success, each has its record  *)
(* in the ledger, yet the sender is left at b less ONE of the two amounts: *)
(* the other debit is lost, where either sequential order debits both.     *)
BothTransferred(p, q) ==
    /\ p /= q
    /\ Done(p, "transfer_funds") /\ Done(q, "transfer_funds")
    /\ result[p].ok /\ result[q].ok
    /\ args[p].sender_id = args[q].sender_id
    /\ args[p].receiver_id /= args[p].sender_id
    /\ args[q].receiver_id /= args[q].sender_id
    /\ TheRow(sender[p]).balance = TheRow(sender[q]).balance

InLedger(p) ==
    \E i \in DOMAIN transactions :
        transactions[i] = transaction_record(args[p], TheRow(sender[p]), TheRow(receiver[p]))

C9_LostUpdate ==
    \A p, q \in Procs :
        (BothTransferred(p, q) /\ RowsOf(users, args[p].sender_id) /= {})
        => LET b == TheRow(sender[p]).balance
               now == BalanceOf(users, args[p].sender_id)
           IN /\ now \in {b - args[p].amount, b - args[q].amount}
              /\ now > b - args[p].amount - args[q].amount
              /\ InLedger(p) /\ InLedger(q)
              /\ Len(transactions) >= 2

(* A (2) pays B 1 and 2 at once, no store call failing: both succeed, the  *)
(* table ends with A = 1, B = 2 (total 3), where the sequential orders     *)
(* give A = 1, B = 1 or A = 0, B = 2 (total 2).                            *)
C9_Witness ==
    /\ BothTransferred(1, 2)
    /\ faults[1] = {} /\ faults[2] = {}
    /\ Len(transactions) = 2
    /\ TheRow(sender[1]).balance = 2
    /\ {args[1].amount, args[2].amount} = {1, 2}
    /\ Ids(users) = {1, 2}
    /\ BalanceOf(users, 1) = 1
    /\ BalanceOf(users, 2) = 2
    /\ Total(users) = 3

-----------------------------------------------------------------------------
(* C10: from a table whose balances are all >= 0, every stored balance is  *)
(* >= 0 in every reachable state, whatever the calls, the writes that fail *)
(* and the interleaving of the calls.                                      *)
C10_NonNegative == \A u \in users : u.balance >= 0

(* two interleaved transfers that together ask more than the sender has    *)
(* have both succeeded: the sender is left at 0                            *)
C10_Witness ==
    /\ BothTransferred(1, 2)
    /\ args[1].amount + args[2].amount > TheRow(sender[1]).balance
    /\ BalanceOf(users, args[1].sender_id) = 0

====
